---- MODULE Spec2Model ----
(***************************************************************************)
(* Save coordination of the notebook editor shell                          *)
(* (frontend/src/core/edit-app.tsx, component EditApp).                    *)
(*                                                                         *)
(* One action is one event handler or one promise continuation: the UI     *)
(* thread runs each to completion, and a network round trip (sendRename,   *)
(* sendSave) is a request record in `pending` whose response is a later    *)
(* action.  `out` holds what the last step did for the user and the        *)
(* transport (alert, toast, dialog, transport call, return value).         *)
(***************************************************************************)
EXTENDS Integers, Sequences, FiniteSets, TLC

\* ---------------------------------------------------------------- bounds
\* cells in the notebook
MaxCells == 1
\* requests awaiting their response
MaxPending == 2
\* output areas in the document
MaxAreas == 2
\* animation frame callbacks not yet run
MaxFrames == 2

\* ---------------------------------------------------------------- values
NULL == "<null>"

\* WebSocketState
ConnStates == {"CONNECTING", "OPEN", "CLOSED"}

\* file names a rename can carry; NULL renames to "unnamed"
FileNames == {"a.py"}
\* what the user can type into the save dialog: a name or blanks
DialogInputs == {"a.py", " "}

AppTitles == {"", "Q3"}
DefaultTitle == "Untitled Notebook"

Codes == {"x=1", "x = 1"}
\* cell names and configs travel with the cells; no step of this model edits them
CellNames == {"__"}
CellConfigs == {"enabled"}
Layouts == {"vertical", "grid"}

NoAlert == "<no alert>"
NotConnectedMsg == "Failed to save notebook: not connected to a kernel."
BackendMsg == "<error.message>"

NoCall == "<no call>"
NoRet == "<no return>"

Cell == [code : Codes, name : CellNames, config : CellConfigs]
CellSeqs == UNION {[1..n -> Cell] : n \in 0..MaxCells}

\* a new cell and the initial layout
NewCell == [code |-> "x=1", name |-> "__", config |-> "enabled"]
NewLayout == "vertical"

VARIABLES
    conn,          \* connection.state
    filename,      \* useFilename(): NULL or a name
    cells,         \* notebookCells(notebook)
    layout,        \* useLayoutState()
    lastSaved,     \* lastSavedNotebook: None or Some([names, codes, configs, layout])
    pending,       \* requests awaiting their response, in request order
    urlFile,       \* the `file` query parameter: NULL when absent
    title,         \* document.title
    dialogOpen,    \* the SaveDialog modal is shown
    appTitle,      \* appConfig.app_title
    viewState,     \* viewStateAtom: [mode, cellAnchor]
    raf,           \* requestAnimationFrame callbacks not yet run: their cellAnchor
    persisted,     \* the backend: the content it persisted last, None or Some(snapshot)
    out            \* what the last step did

\* the state of the save coordination, and of the presentation toggle
saveVars == <<conn, filename, cells, layout, lastSaved, pending, urlFile,
              title, dialogOpen, appTitle>>
viewVars == <<viewState, raf>>

vars == <<conn, filename, cells, layout, lastSaved, pending, urlFile, title,
          dialogOpen, appTitle, viewState, raf, persisted, out>>

\* ------------------------------------------------------------- helpers
RemoveAt(s, i) == [j \in 1..(Len(s) - 1) |-> IF j < i THEN s[j] ELSE s[j + 1]]

\* JavaScript truthiness of a string | null, as `||` tests it
Truthy(s) == s # NULL /\ s # ""
\* a || b
Or(a, b) == IF Truthy(a) THEN a ELSE b

\* String.prototype.trim on the dialog inputs
Trim(s) == IF s = " " THEN "" ELSE s

\* cells.map((cell) => cell.code), .name, .config
codesOf(cs) == [i \in 1..Len(cs) |-> cs[i].code]
namesOf(cs) == [i \in 1..Len(cs) |-> cs[i].name]
configsOf(cs) == [i \in 1..Len(cs) |-> cs[i].config]

\* const codes / cellNames / configs of the current render
codes == codesOf(cells)
cellNames == namesOf(cells)
configs == configsOf(cells)

\* an optional value: None, or Some(v)
None == <<>>
Some(v) == <<v>>

\* the object handed to setLastSavedNotebook
Snapshot(cs, lay) ==
    [names |-> namesOf(cs), codes |-> codesOf(cs),
     configs |-> configsOf(cs), layout |-> lay]

NoSnap == [names |-> <<>>, codes |-> <<>>, configs |-> <<>>, layout |-> NewLayout]

\* the comparison of notebookNeedsSave on the content `cur` of the notebook
snapshotNeedsSave(cur, last) ==
    IF last = None
    THEN Len(cur.codes) >= 1
    ELSE \/ Len(cur.codes) # Len(last[1].codes)
         \/ cur.codes # last[1].codes
         \/ cur.names # last[1].names
         \/ cur.configs # last[1].configs
         \/ cur.layout # last[1].layout

\* notebookNeedsSave(notebook, layout, lastSavedNotebook)
notebookNeedsSave(cs, lay, last) == snapshotNeedsSave(Snapshot(cs, lay), last)

needsSave == notebookNeedsSave(cells, layout, lastSaved)

\* formatAll: the formatter's result on one cell's code
Format(c) == IF c = "x=1" THEN "x = 1" ELSE c
formatCell(c) == [c EXCEPT !.code = Format(c.code)]
formatAll(cs) == [i \in 1..Len(cs) |-> formatCell(cs[i])]

\* ------------------------------------------------------------ requests
\* A request in flight with what its continuation closes over.
\*   rename: name, dlg (the promise is chained by handleSaveDialog)
\*   save:   name (the filename sent), ui (userInitiated), snap (cellNames,
\*           codes, configs, layout of the render that issued it)
\*   was:    Filename when the rename was requested (kept for the claims;
\*           no continuation reads it)
\*   overtaken: the response to a save sent later has already arrived (kept
\*           for the claims; no continuation reads it)
RenameReq(name, dlg) ==
    [kind |-> "rename", name |-> name, dlg |-> dlg, ui |-> FALSE,
     snap |-> NoSnap, was |-> filename, overtaken |-> FALSE]
SaveReq(name, ui) ==
    [kind |-> "save", name |-> name, dlg |-> FALSE, ui |-> ui,
     snap |-> Snapshot(cells, layout), was |-> NULL, overtaken |-> FALSE]

\* `out` of a step that shows, sends and returns nothing
\*   op: the handler that ran          arg: the name it was given
\*   dlg: it ran for the SaveDialog    saveCalled: it called saveNotebook
\*   alert / toast / opened: openAlert, toast, openModal(SaveDialog)
\*   sent: the transport call made     ret: the rename's resolved value
\*   blocked: beforeunload prevented   wrote: title written at line 122
\*   static: isStaticNotebook() then   formatted: formatAll ran
\*   overtaken: the save answered was overtaken by a later one
Quiet(op) ==
    [op |-> op, arg |-> NULL, dlg |-> FALSE, saveCalled |-> FALSE,
     alert |-> NoAlert, sent |-> NoCall, opened |-> FALSE, ret |-> NoRet,
     toast |-> FALSE, formatted |-> FALSE, static |-> FALSE,
     blocked |-> FALSE, wrote |-> NULL, was |-> NULL, overtaken |-> FALSE]

\* ---------------------------------------------------------------- title
\* (variant: the file name before the app title)
renameTitleNameFirst(app, name) == Or(name, Or(app, DefaultTitle))

\* line 122: document.title on the rename-success path
renameTitle(app, name) == Or(app, Or(name, DefaultTitle))
\* line 134: document.title in the effect on [app_title, filename]
effectTitle(app, fname) == Or(app, Or(fname, DefaultTitle))

\* ------------------------------------------------------------------ save
\* alertSaveFailed
alertSaveFailed == NotConnectedMsg

\* a call that does nothing
NoSave(pend) ==
    [pending |-> pend, alert |-> NoAlert, sent |-> NoCall, saveCalled |-> FALSE]

\* (variant: without the connection check)
saveNotebookAnyConn(fname, userInitiated, pend) ==
    IF Len(codes) = 0
    THEN [pending |-> pend, alert |-> NoAlert, sent |-> NoCall,
          saveCalled |-> TRUE]
    ELSE [pending |-> Append(pend, SaveReq(fname, userInitiated)),
          alert |-> NoAlert, sent |-> "sendSave", saveCalled |-> TRUE]

\* (variant: without the check for an empty notebook)
saveNotebookEmpty(fname, userInitiated, pend) ==
    IF conn # "OPEN"
    THEN [pending |-> pend, alert |-> alertSaveFailed, sent |-> NoCall,
          saveCalled |-> TRUE]
    ELSE [pending |-> Append(pend, SaveReq(fname, userInitiated)),
          alert |-> NoAlert, sent |-> "sendSave", saveCalled |-> TRUE]

\* saveNotebook(filename, userInitiated): the requests in flight afterwards,
\* the alert shown and the transport call made
saveNotebook(fname, userInitiated, pend) ==
    IF Len(codes) = 0
    THEN [pending |-> pend, alert |-> NoAlert, sent |-> NoCall,
          saveCalled |-> TRUE]
    ELSE IF conn # "OPEN"
    THEN [pending |-> pend, alert |-> alertSaveFailed, sent |-> NoCall,
          saveCalled |-> TRUE]
    ELSE [pending |-> Append(pend, SaveReq(fname, userInitiated)),
          alert |-> NoAlert, sent |-> "sendSave", saveCalled |-> TRUE]

\* the saves sent before request i have been overtaken by its response
overtake(pend, i) ==
    [j \in 1..Len(pend) |->
        IF j < i /\ pend[j].kind = "save"
        THEN [pend[j] EXCEPT !.overtaken = TRUE]
        ELSE pend[j]]

\* the backend handles the saves in the order they were sent and persists
\* what each carries: the content it holds once the response to `req` is in
persist(req, cur) == IF req.overtaken THEN cur ELSE Some(req.snap)

\* (variant: the response to an overtaken save is dropped)
savedUnlessOvertaken(req, format_on_save) ==
    [toast |-> req.ui,
     formatted |-> req.ui /\ format_on_save,
     cells |-> IF req.ui /\ format_on_save THEN formatAll(cells) ELSE cells,
     lastSaved |-> IF req.overtaken THEN lastSaved ELSE Some(req.snap)]

\* (variant: the baseline is the notebook as it is when the response arrives)
savedCurrent(req, format_on_save) ==
    [toast |-> req.ui,
     formatted |-> req.ui /\ format_on_save,
     cells |-> IF req.ui /\ format_on_save THEN formatAll(cells) ELSE cells,
     lastSaved |-> Some(Snapshot(cells, layout))]

\* the continuation of sendSave(...).then: the toast shown, the cells after
\* formatAll(updateCellCode) and the value given to setLastSavedNotebook
\* (format_on_save: userConfig.save.format_on_save)
saved(req, format_on_save) ==
    [toast |-> req.ui,
     formatted |-> req.ui /\ format_on_save,
     cells |-> IF req.ui /\ format_on_save THEN formatAll(cells) ELSE cells,
     lastSaved |-> Some(req.snap)]

\* (variant: the rejected save moves the baseline all the same)
saveFailedSets(req) ==
    [toast |-> FALSE, formatted |-> FALSE, cells |-> cells,
     lastSaved |-> Some(req.snap), alert |-> NoAlert, sent |-> NoCall]

\* (variant: the rejection is reported like a rejected rename)
saveFailedAlerts(req) ==
    [toast |-> FALSE, formatted |-> FALSE, cells |-> cells,
     lastSaved |-> lastSaved, alert |-> BackendMsg, sent |-> NoCall]

\* sendSave(...) rejected: the promise has only a .then, nothing runs
saveFailed(req) ==
    [toast |-> FALSE, formatted |-> FALSE, cells |-> cells,
     lastSaved |-> lastSaved, alert |-> NoAlert, sent |-> NoCall]

\* (variant: without the connection check)
saveIfNotebookIsNamedAnyConn(userInitiated, pend) ==
    IF filename # NULL
    THEN saveNotebook(filename, userInitiated, pend)
    ELSE NoSave(pend)

\* saveIfNotebookIsNamed(userInitiated)
saveIfNotebookIsNamed(userInitiated, pend) ==
    IF filename # NULL /\ conn = "OPEN"
    THEN saveNotebook(filename, userInitiated, pend)
    ELSE NoSave(pend)

\* (variant: the dialog opens only when connected to a kernel)
saveOrNameNotebookConnected(pend) ==
    [save |-> saveIfNotebookIsNamed(TRUE, pend),
     opened |-> filename = NULL /\ conn = "OPEN"]

\* saveOrNameNotebook: the save attempt and whether the SaveDialog opens
saveOrNameNotebook(pend) ==
    [save |-> saveIfNotebookIsNamed(TRUE, pend),
     opened |-> filename = NULL /\ conn # "CLOSED"]

\* (variant: without the static check)
beforeunloadAlways(isStaticNotebook) == needsSave

\* the beforeunload listener prevents the close
beforeunload(isStaticNotebook) == IF isStaticNotebook THEN FALSE ELSE needsSave

\* ---------------------------------------------------------------- rename
\* (variant: the query parameter is updated before the connection check)
handleFilenameChangeEager(name, dlg, pend) ==
    IF conn # "OPEN"
    THEN [pending |-> pend, urlFile |-> name, alert |-> alertSaveFailed,
          sent |-> NoCall, ret |-> NULL]
    ELSE [pending |-> Append(pend, RenameReq(name, dlg)), urlFile |-> name,
          alert |-> NoAlert, sent |-> "sendRename", ret |-> NoRet]

\* handleFilenameChange(name) up to the request: the `file` parameter, the
\* requests in flight, the alert, the transport call and, when refused, the
\* null it resolves to
handleFilenameChange(name, dlg, pend) ==
    IF conn # "OPEN"
    THEN [pending |-> pend, urlFile |-> urlFile, alert |-> alertSaveFailed,
          sent |-> NoCall, ret |-> NULL]
    ELSE [pending |-> Append(pend, RenameReq(name, dlg)), urlFile |-> name,
          alert |-> NoAlert, sent |-> "sendRename", ret |-> NoRet]

\* sendRename(name).then: Filename, the title written and the value returned
renamed(req) ==
    [filename |-> req.name, wrote |-> renameTitle(appTitle, req.name),
     alert |-> NoAlert, ret |-> req.name]

\* (variant: Filename is set although the rename failed)
renameFailedSets(req) ==
    [filename |-> req.name, wrote |-> NULL, alert |-> BackendMsg, ret |-> NULL]

\* sendRename(name).catch
renameFailed(req) ==
    [filename |-> filename, wrote |-> NULL, alert |-> BackendMsg, ret |-> NULL]

\* (variant: saves whatever the rename resolved to)
handleSaveDialogAlways(name, pend) == saveNotebook(name, TRUE, pend)

\* handleSaveDialog's continuation on the resolved name
handleSaveDialog(name, pend) ==
    IF name # NULL THEN saveNotebook(name, TRUE, pend) ELSE NoSave(pend)

\* SaveDialog.handleFilenameChange: the name is handed to onSave
dialogAccepts(name) == Truthy(Trim(name))

\* ------------------------------------------------------------------ Init
Init ==
    /\ conn = "CONNECTING"
    /\ filename \in {NULL} \cup FileNames
    /\ cells = <<>>
    /\ layout = NewLayout
    /\ lastSaved = None
    /\ pending = <<>>
    /\ urlFile = filename
    /\ appTitle \in AppTitles
    /\ title = effectTitle(appTitle, filename)
    /\ dialogOpen = FALSE
    /\ viewState = [mode |-> "edit", cellAnchor |-> None]
    /\ raf = <<>>
    /\ persisted = None
    /\ out = Quiet("init")

\* ----------------------------------------------------------- environment
\* the transport pushes a new connection state
ConnChange ==
    /\ \E s \in ConnStates : s # conn /\ conn' = s
    /\ out' = Quiet("conn")
    /\ UNCHANGED <<filename, cells, layout, lastSaved, pending, urlFile, title,
                   dialogOpen, appTitle, viewVars, persisted>>

\* useMarimoWebSocket's setCells callback: the backend delivers the cells
SetCells ==
    /\ conn = "OPEN"
    /\ \E cs \in CellSeqs, lay \in Layouts :
        /\ cells' = cs
        /\ layout' = lay
        /\ lastSaved' = Some(Snapshot(cs, lay))
    /\ out' = Quiet("setCells")
    /\ UNCHANGED <<conn, filename, pending, urlFile, title, dialogOpen,
                   appTitle, viewVars, persisted>>

\* the user edits the notebook
UpdateCellCode ==
    /\ \E i \in 1..Len(cells), c \in Codes :
        /\ c # cells[i].code
        /\ cells' = [cells EXCEPT ![i].code = c]
    /\ out' = Quiet("edit")
    /\ UNCHANGED <<conn, filename, layout, lastSaved, pending, urlFile, title,
                   dialogOpen, appTitle, viewVars, persisted>>

SetLayout ==
    /\ \E lay \in Layouts : lay # layout /\ layout' = lay
    /\ out' = Quiet("edit")
    /\ UNCHANGED <<conn, filename, cells, lastSaved, pending, urlFile, title,
                   dialogOpen, appTitle, viewVars, persisted>>

CreateCell ==
    /\ Len(cells) < MaxCells
    /\ cells' = Append(cells, NewCell)
    /\ out' = Quiet("edit")
    /\ UNCHANGED <<conn, filename, layout, lastSaved, pending, urlFile, title,
                   dialogOpen, appTitle, viewVars, persisted>>

DeleteCell ==
    /\ \E i \in 1..Len(cells) : cells' = RemoveAt(cells, i)
    /\ out' = Quiet("edit")
    /\ UNCHANGED <<conn, filename, layout, lastSaved, pending, urlFile, title,
                   dialogOpen, appTitle, viewVars, persisted>>

\* --------------------------------------------------------------- handlers
\* hotkey global.save / Controls.onSaveNotebook
SaveOrNameNotebook ==
    /\ Len(pending) < MaxPending
    /\ LET r == saveOrNameNotebook(pending) IN
        /\ pending' = r.save.pending
        /\ dialogOpen' = (dialogOpen \/ r.opened)
        /\ out' = [Quiet("saveOrNameNotebook") EXCEPT
                      !.alert = r.save.alert, !.sent = r.save.sent,
                      !.saveCalled = r.save.saveCalled, !.opened = r.opened]
    /\ UNCHANGED <<conn, filename, cells, layout, lastSaved, urlFile, title,
                   appTitle, viewVars, persisted>>

\* useAutoSave's onSave: saveIfNotebookIsNamed(), fired while needsSave
AutoSave ==
    /\ needsSave
    /\ Len(pending) < MaxPending
    /\ LET r == saveIfNotebookIsNamed(FALSE, pending) IN
        /\ pending' = r.pending
        /\ out' = [Quiet("autosave") EXCEPT
                      !.alert = r.alert, !.sent = r.sent,
                      !.saveCalled = r.saveCalled]
    /\ UNCHANGED <<conn, filename, cells, layout, lastSaved, urlFile, title,
                   dialogOpen, appTitle, viewVars, persisted>>

\* FilenameForm.setFilename = handleFilenameChange
FilenameFormSubmit ==
    /\ Len(pending) < MaxPending
    /\ \E name \in {NULL} \cup FileNames :
        LET r == handleFilenameChange(name, FALSE, pending) IN
        /\ pending' = r.pending
        /\ urlFile' = r.urlFile
        /\ out' = [Quiet("rename") EXCEPT
                      !.arg = name, !.alert = r.alert, !.sent = r.sent,
                      !.ret = r.ret]
    /\ UNCHANGED <<conn, filename, cells, layout, lastSaved, title, dialogOpen,
                   appTitle, viewVars, persisted>>

\* SaveDialog.handleFilenameChange(name): onSave = handleSaveDialog, onClose
SaveDialogSubmit ==
    /\ dialogOpen
    /\ Len(pending) < MaxPending
    /\ \E name \in DialogInputs :
        IF dialogAccepts(name)
        THEN LET r == handleFilenameChange(name, TRUE, pending)
                 s == IF r.ret = NULL THEN handleSaveDialog(NULL, r.pending)
                      ELSE NoSave(r.pending)
             IN  /\ pending' = s.pending
                 /\ urlFile' = r.urlFile
                 /\ dialogOpen' = FALSE
                 /\ out' = [Quiet("rename") EXCEPT
                               !.arg = name, !.dlg = TRUE, !.alert = r.alert,
                               !.sent = r.sent, !.ret = r.ret]
        ELSE /\ out' = [Quiet("dialogInput") EXCEPT !.arg = name, !.dlg = TRUE]
             /\ UNCHANGED <<pending, urlFile, dialogOpen>>
    /\ UNCHANGED <<conn, filename, cells, layout, lastSaved, title, appTitle, viewVars, persisted>>

\* SaveDialog's Cancel button: onClose
SaveDialogCancel ==
    /\ dialogOpen
    /\ dialogOpen' = FALSE
    /\ out' = Quiet("dialogCancel")
    /\ UNCHANGED <<conn, filename, cells, layout, lastSaved, pending, urlFile,
                   title, appTitle, viewVars, persisted>>

\* the backend accepts a rename: .then of sendRename, the effect on
\* [app_title, filename] of the next render, then handleSaveDialog's .then
RenameOk ==
    \E i \in 1..Len(pending) :
        /\ pending[i].kind = "rename"
        /\ LET req == pending[i]
               r == renamed(req)
               s == IF req.dlg THEN handleSaveDialog(r.ret, RemoveAt(pending, i))
                    ELSE NoSave(RemoveAt(pending, i))
           IN  /\ filename' = r.filename
               /\ title' = IF r.filename # filename
                            THEN effectTitle(appTitle, r.filename)
                            ELSE r.wrote
               /\ pending' = s.pending
               /\ out' = [Quiet("renameOk") EXCEPT
                             !.arg = req.name, !.dlg = req.dlg, !.ret = r.ret,
                             !.wrote = r.wrote, !.alert = s.alert,
                             !.sent = s.sent, !.saveCalled = s.saveCalled,
                             !.was = req.was]
        /\ UNCHANGED <<conn, cells, layout, lastSaved, urlFile, dialogOpen,
                       appTitle, viewVars, persisted>>

\* the backend rejects a rename: .catch of sendRename
RenameRejected ==
    \E i \in 1..Len(pending) :
        /\ pending[i].kind = "rename"
        /\ LET req == pending[i]
               r == renameFailed(req)
               s == IF req.dlg THEN handleSaveDialog(r.ret, RemoveAt(pending, i))
                    ELSE NoSave(RemoveAt(pending, i))
           IN  /\ filename' = r.filename
               /\ pending' = s.pending
               /\ out' = [Quiet("renameRejected") EXCEPT
                             !.arg = req.name, !.dlg = req.dlg, !.ret = r.ret,
                             !.alert = IF r.alert # NoAlert THEN r.alert ELSE s.alert,
                             !.sent = s.sent, !.saveCalled = s.saveCalled,
                             !.was = req.was]
        /\ UNCHANGED <<conn, cells, layout, lastSaved, urlFile, title,
                       dialogOpen, appTitle, viewVars, persisted>>

\* the backend confirms a save: .then of sendSave
SaveOk ==
    \E i \in 1..Len(pending) :
        /\ pending[i].kind = "save"
        /\ \E format_on_save \in BOOLEAN :
            LET r == saved(pending[i], format_on_save) IN
            /\ cells' = r.cells
            /\ lastSaved' = r.lastSaved
            /\ out' = [Quiet("saveOk") EXCEPT
                          !.arg = pending[i].name, !.toast = r.toast,
                          !.formatted = r.formatted]
        /\ pending' = RemoveAt(pending, i)
        /\ UNCHANGED <<conn, filename, layout, urlFile, title, dialogOpen,
                       appTitle, viewVars, persisted>>

\* the backend rejects a save: sendSave's promise has no .catch
SaveRejected ==
    \E i \in 1..Len(pending) :
        /\ pending[i].kind = "save"
        /\ LET r == saveFailed(pending[i]) IN
            /\ cells' = r.cells
            /\ lastSaved' = r.lastSaved
            /\ out' = [Quiet("saveRejected") EXCEPT
                          !.arg = pending[i].name, !.toast = r.toast,
                          !.formatted = r.formatted, !.alert = r.alert,
                          !.sent = r.sent]
        /\ pending' = RemoveAt(pending, i)
        /\ UNCHANGED <<conn, filename, layout, urlFile, title, dialogOpen,
                       appTitle, viewVars, persisted>>

\* window "beforeunload"
BeforeUnload ==
    /\ \E isStaticNotebook \in BOOLEAN :
        out' = [Quiet("beforeunload") EXCEPT
                  !.static = isStaticNotebook,
                  !.blocked = beforeunload(isStaticNotebook)]
    /\ UNCHANGED <<conn, filename, cells, layout, lastSaved, pending, urlFile,
                   title, dialogOpen, appTitle, viewVars, persisted>>

Next ==
    \/ ConnChange
    \/ SetCells
    \/ UpdateCellCode
    \/ SetLayout
    \/ CreateCell
    \/ DeleteCell
    \/ SaveOrNameNotebook
    \/ AutoSave
    \/ FilenameFormSubmit
    \/ SaveDialogSubmit
    \/ SaveDialogCancel
    \/ RenameOk
    \/ RenameRejected
    \/ SaveOk
    \/ SaveRejected
    \/ BeforeUnload

Spec == Init /\ [][Next]_vars

\* ======================================================== the backend
\* The same program with the backend's side recorded: what it persisted
\* last, and which saves in flight have been overtaken by a later one.

\* the cells the backend delivers are the notebook it holds
SetCellsTracked ==
    /\ conn = "OPEN"
    /\ \E cs \in CellSeqs, lay \in Layouts :
        /\ cells' = cs
        /\ layout' = lay
        /\ lastSaved' = Some(Snapshot(cs, lay))
        /\ persisted' = Some(Snapshot(cs, lay))
    /\ out' = Quiet("setCells")
    /\ UNCHANGED <<conn, filename, pending, urlFile, title, dialogOpen,
                   appTitle, viewVars>>

\* the backend confirms a save: .then of sendSave; the responses to saves
\* sent earlier and still awaited arrive after this one
SaveOkTracked ==
    \E i \in 1..Len(pending) :
        /\ pending[i].kind = "save"
        /\ \E format_on_save \in BOOLEAN :
            LET r == saved(pending[i], format_on_save) IN
            /\ cells' = r.cells
            /\ lastSaved' = r.lastSaved
            /\ out' = [Quiet("saveOk") EXCEPT
                          !.arg = pending[i].name, !.toast = r.toast,
                          !.formatted = r.formatted,
                          !.overtaken = pending[i].overtaken]
        /\ persisted' = persist(pending[i], persisted)
        /\ pending' = RemoveAt(overtake(pending, i), i)
        /\ UNCHANGED <<conn, filename, layout, urlFile, title, dialogOpen,
                       appTitle, viewVars>>

\* the app title plays no part in saving
InitBackend == Init /\ appTitle = ""

NextBackend ==
    \/ ConnChange
    \/ SetCellsTracked
    \/ UpdateCellCode
    \/ SetLayout
    \/ CreateCell
    \/ DeleteCell
    \/ SaveOrNameNotebook
    \/ AutoSave
    \/ FilenameFormSubmit
    \/ SaveDialogSubmit
    \/ SaveDialogCancel
    \/ RenameOk
    \/ RenameRejected
    \/ SaveOkTracked
    \/ SaveRejected
    \/ BeforeUnload

SpecBackend == InitBackend /\ [][NextBackend]_vars

\* ================================================== presentation toggle
\* vertical coordinates of a bounding box, relative to the viewport's top
Coords == -1..3
\* window.innerHeight (0 when the window reports none) and
\* document.documentElement.clientHeight
InnerHeights == {0, 2}
ClientHeights == {1}
Modes == {"edit", "present"}
\* the cells in document order
CellIds == 1..MaxAreas

\* HTMLCellId.create / HTMLCellId.parse: the id of a cell's element
HTMLCellIdCreate(cellId) == <<"cell-", cellId>>
HTMLCellIdParse(htmlId) == htmlId[2]

\* elem.getBoundingClientRect() of the output areas of cells `owners`
Rects == {r \in [top : Coords, bottom : Coords] : r.top <= r.bottom}
OutputArea(cellId, rect) ==
    [parent |-> HTMLCellIdCreate(cellId), top |-> rect.top, bottom |-> rect.bottom]
\* document.getElementsByClassName("output-area"): the areas of some of the
\* cells, in document order
OutputAreas ==
    {areas \in UNION {[1..n -> {OutputArea(c, r) : c \in CellIds, r \in Rects}] :
                        n \in 0..MaxAreas} :
        \A i, j \in 1..Len(areas) :
            i < j => HTMLCellIdParse(areas[i].parent) < HTMLCellIdParse(areas[j].parent)}

toggleAppMode(mode) == IF mode = "edit" THEN "present" ELSE "edit"

viewportEndOf(innerHeight, clientHeight) ==
    IF innerHeight # 0 THEN innerHeight ELSE clientHeight

\* the test of the loop over the output areas
isVisible(rect, viewportEnd) ==
    \/ rect.top >= 0 /\ rect.top <= viewportEnd
    \/ rect.bottom >= 0 /\ rect.bottom <= viewportEnd

\* the loop: the owner of the first area passing the test, or null
findCellAnchor(outputAreas, viewportEnd) ==
    LET hits == {i \in 1..Len(outputAreas) : isVisible(outputAreas[i], viewportEnd)}
    IN  IF hits = {}
        THEN None
        ELSE Some(HTMLCellIdParse(
                    outputAreas[CHOOSE i \in hits : \A j \in hits : i <= j].parent))

\* a variant that keeps the earlier anchor when none is found
viewStateAfterKeep(prev, cellAnchor) ==
    [mode |-> toggleAppMode(prev.mode),
     cellAnchor |-> IF cellAnchor = None THEN prev.cellAnchor ELSE cellAnchor]

\* setViewState((prev) => ({ mode: toggleAppMode(prev.mode), cellAnchor }))
viewStateAfter(prev, cellAnchor) ==
    [mode |-> toggleAppMode(prev.mode), cellAnchor |-> cellAnchor]

\* the animation frame callback: the element scrolled into view, if any
scrollTarget(cellAnchor, elementExists) ==
    IF cellAnchor = None
    THEN None
    ELSE IF elementExists THEN Some(HTMLCellIdCreate(cellAnchor[1])) ELSE None

ViewOut(op) ==
    [op |-> op, areas |-> <<>>, viewportEnd |-> 0, anchor |-> None,
     prev |-> viewState, scrolled |-> None]

TogglePresenting ==
    /\ Len(raf) < MaxFrames
    /\ \E outputAreas \in OutputAreas, innerHeight \in InnerHeights,
          clientHeight \in ClientHeights :
        LET viewportEnd == viewportEndOf(innerHeight, clientHeight)
            cellAnchor == findCellAnchor(outputAreas, viewportEnd)
        IN  /\ viewState' = viewStateAfter(viewState, cellAnchor)
            /\ raf' = Append(raf, cellAnchor)
            /\ out' = [ViewOut("togglePresenting") EXCEPT
                         !.areas = outputAreas,
                         !.viewportEnd = viewportEnd,
                         !.anchor = cellAnchor]
    /\ UNCHANGED <<saveVars, persisted>>

\* the browser runs the oldest animation frame callback
AnimationFrame ==
    /\ raf # <<>>
    /\ \E elementExists \in BOOLEAN :
        out' = [ViewOut("animationFrame") EXCEPT
                  !.anchor = Head(raf),
                  !.scrolled = scrollTarget(Head(raf), elementExists)]
    /\ raf' = Tail(raf)
    /\ UNCHANGED <<viewState, saveVars, persisted>>

NextToggle ==
    \/ TogglePresenting
    \/ AnimationFrame

SpecToggle == Init /\ [][NextToggle]_vars

TypeOK ==
    /\ conn \in ConnStates
    /\ filename \in {NULL} \cup FileNames \cup DialogInputs
    /\ cells \in CellSeqs
    /\ layout \in Layouts
    /\ Len(pending) <= MaxPending
    /\ dialogOpen \in BOOLEAN

\* ================================================================ claims
IsSave(r) == r.kind = "save"
IsRename(r) == r.kind = "rename"
\* the save / rename requests awaiting their response, in request order
Saves(pend) == SelectSeq(pend, IsSave)
Renames(pend) == SelectSeq(pend, IsRename)
\* this step issued a sendSave
SaveIssued == out'.sent = "sendSave" \/ Len(Saves(pending')) > Len(Saves(pending))
\* everything but Filename's mirrors, the dialog and `out`
content == <<cells, layout, lastSaved>>

\* C1: when saveNotebook runs while the connection is not OPEN, no sendSave
\* is issued and LastSavedNotebook stays as it was.
C1_NotOpenNoSave ==
    [][(out'.saveCalled /\ conn' # "OPEN")
        => (~SaveIssued /\ Saves(pending') = Saves(pending)
            /\ lastSaved' = lastSaved)]_vars

\* saveNotebook ran on a notebook with cells while the connection was not OPEN
C1_Witness ==
    /\ out.saveCalled
    /\ conn # "OPEN"
    /\ Len(cells) > 0
    /\ out.alert = NotConnectedMsg

\* C2: no step taken while the notebook has zero cells issues a sendSave,
\* whatever the entry point, the connection state, Filename or dirtiness.
C2_EmptyNeverSaved ==
    [][Len(cells) = 0 => ~SaveIssued]_vars

\* saveNotebook ran on an empty, named, dirty notebook with the connection OPEN
C2_Witness ==
    /\ out.saveCalled
    /\ Len(cells) = 0
    /\ conn = "OPEN"
    /\ needsSave

\* C3: a successful save response sets LastSavedNotebook to the snapshot its
\* request was issued with, so that snapshot does not need saving against the
\* new baseline, whatever the notebook holds when the response arrives.
C3_SavedIsSentSnapshot ==
    [][out'.op = "saveOk"
        => \E i \in 1..Len(pending) :
              /\ pending[i].kind = "save"
              /\ pending' = RemoveAt(pending, i)
              /\ lastSaved' = Some(pending[i].snap)
              /\ ~snapshotNeedsSave(pending[i].snap, lastSaved')]_vars

\* a save was confirmed after the notebook was edited: the baseline is the
\* sent snapshot and the notebook still needs saving
C3_Witness ==
    /\ out.op = "saveOk"
    /\ ~out.formatted
    /\ lastSaved # None
    /\ lastSaved # Some(Snapshot(cells, layout))
    /\ needsSave

\* C4: in the name-and-save flow the dialog's submission issues sendRename(n)
\* and no sendSave; a sendSave of this flow is issued only in the continuation
\* of that rename's successful response, with filename n and userInitiated
\* true; a refused or rejected rename issues none.
C4_RenameThenSave ==
    [][out'.dlg
        => /\ out'.op = "rename" /\ out'.sent # NoCall
                => /\ out'.sent = "sendRename"
                   /\ pending' = Append(pending, RenameReq(out'.arg, TRUE))
           /\ out'.op # "renameOk"
                => ~SaveIssued /\ Saves(pending') = Saves(pending)
           /\ out'.op = "renameOk"
                => /\ \E i \in 1..Len(pending) :
                        /\ pending[i].kind = "rename"
                        /\ pending[i].dlg
                        /\ pending[i].name = out'.arg
                   /\ SaveIssued
                        => /\ Saves(pending') =
                                Append(Saves(pending), pending'[Len(pending')])
                           /\ pending'[Len(pending')].kind = "save"
                           /\ pending'[Len(pending')].name = out'.arg
                           /\ pending'[Len(pending')].ui]_vars

\* the dialog's rename succeeded and its continuation issued the save
C4_Witness ==
    /\ out.op = "renameOk"
    /\ out.dlg
    /\ out.sent = "sendSave"

\* C5: handleFilenameChange invoked while the connection is not OPEN shows the
\* not-connected alert, resolves to null, issues no sendRename and leaves
\* Filename, the document title and the `file` query parameter unchanged.
C5_RenameRefused ==
    [][(out'.op = "rename" /\ conn # "OPEN")
        => /\ out'.alert = NotConnectedMsg
           /\ out'.ret = NULL
           /\ out'.sent = NoCall
           /\ UNCHANGED <<filename, title, urlFile, pending, content, conn>>]_vars

\* a rename to a name other than the `file` parameter was refused
C5_Witness ==
    /\ out.op = "rename"
    /\ conn # "OPEN"
    /\ out.arg # urlFile
    /\ out.alert = NotConnectedMsg

\* C6 as stated: after a rejected rename Filename is what it was when that
\* rename was requested.
C6_FilenameAsRequested ==
    out.op = "renameRejected"
        => /\ out.alert = BackendMsg
           /\ out.ret = NULL
           /\ out.sent = NoCall
           /\ filename = out.was

\* C6 (amended): the rejection of a rename shows the backend's message,
\* resolves to null, issues no save and does not change Filename; a rename
\* that succeeded since the request is kept.
C6_RejectionKeepsFilename ==
    [][out'.op = "renameRejected"
        => /\ out'.alert = BackendMsg
           /\ out'.ret = NULL
           /\ ~SaveIssued /\ Saves(pending') = Saves(pending)
           /\ out'.sent = NoCall
           /\ filename' = filename]_vars

\* a rename to another name than Filename was rejected
C6_Witness ==
    /\ out.op = "renameRejected"
    /\ out.arg # filename
    /\ out.alert = BackendMsg

\* C7: a saveOrNameNotebook call made while the connection is not OPEN issues
\* no sendSave and shows the not-connected alert.
C7_NotOpenAlerts ==
    (out.op = "saveOrNameNotebook" /\ conn # "OPEN")
        => (out.sent # "sendSave" /\ out.alert = NotConnectedMsg)

\* C8: an autosave never shows an alert: it issues a save or changes nothing.
C8_AutosaveSilent ==
    [][out'.op = "autosave"
        => /\ out'.alert = NoAlert
           /\ ~out'.opened
           /\ \/ SaveIssued
              \/ UNCHANGED <<conn, filename, content, pending, urlFile, title,
                             dialogOpen>>]_vars

\* autosave fired on a named notebook with cells while not connected
C8_Witness ==
    /\ out.op = "autosave"
    /\ conn # "OPEN"
    /\ filename # NULL
    /\ Len(cells) > 0
    /\ out.sent = NoCall

\* the title the precedence rule gives
ExpectedTitle ==
    IF appTitle # "" THEN appTitle
    ELSE IF filename # NULL THEN filename
    ELSE DefaultTitle

\* C9: when no rename awaits its response the document title is app_title if
\* non-empty, else Filename if set, else the default label; and the title the
\* rename-success path wrote is the one the effect computes from the same
\* app_title and Filename.
C9_TitlePrecedence ==
    /\ Len(Renames(pending)) = 0 => title = ExpectedTitle
    /\ out.op = "renameOk" => out.wrote = effectTitle(appTitle, filename)

\* a rename succeeded under a non-empty app_title and none is in flight
C9_Witness ==
    /\ out.op = "renameOk"
    /\ Len(Renames(pending)) = 0
    /\ appTitle # ""
    /\ filename # NULL
    /\ title = appTitle

\* C10: the close is blocked exactly when the notebook is not static and
\* needsSave is true.
C10_UnloadGuard ==
    out.op = "beforeunload"
        => (out.blocked <=> (~out.static /\ needsSave))

\* a dirty static notebook was closed without being blocked
C10_Witness ==
    /\ out.op = "beforeunload"
    /\ out.static
    /\ needsSave
    /\ ~out.blocked

\* the bounding box meets the viewport [0, viewportEnd]
Intersects(rect, viewportEnd) == rect.top <= viewportEnd /\ rect.bottom >= 0
NoneIntersects(areas, viewportEnd) ==
    \A i \in 1..Len(areas) : ~Intersects(areas[i], viewportEnd)

\* C11: every toggle flips the view mode whether or not an anchor is found;
\* when no output region meets the viewport the recorded cellAnchor is None,
\* whatever an earlier toggle left there, and the animation frame of that
\* toggle scrolls nothing.
C11_ToggleFlips ==
    [][/\ out'.op = "togglePresenting"
            => /\ viewState'.mode # viewState.mode
               /\ viewState'.mode \in Modes
               /\ NoneIntersects(out'.areas, out'.viewportEnd)
                    => /\ viewState'.cellAnchor = None
                       /\ raf'[Len(raf')] = None
       /\ (out'.op = "animationFrame" /\ Head(raf) = None)
            => /\ out'.scrolled = None
               /\ viewState' = viewState]_vars

\* a toggle with no region in the viewport replaced an earlier anchor by None
C11_Witness ==
    /\ out.op = "togglePresenting"
    /\ Len(out.areas) > 0
    /\ NoneIntersects(out.areas, out.viewportEnd)
    /\ out.prev.cellAnchor # None
    /\ viewState.cellAnchor = None
    /\ viewState.mode # out.prev.mode

\* the owner of the first region, in document order, that meets the viewport
FirstIntersecting(areas, viewportEnd) ==
    LET hits == {i \in 1..Len(areas) : Intersects(areas[i], viewportEnd)}
    IN  IF hits = {}
        THEN None
        ELSE Some(HTMLCellIdParse(
                    areas[CHOOSE i \in hits : \A j \in hits : i <= j].parent))

\* C17: the anchor the toggle chooses is the owning cell of the first output
\* region, in document order, whose bounding box meets [0, viewportEnd], a
\* region reaching from above the viewport to below it included; it is None
\* exactly when no region meets the viewport.
C17_AnchorIsFirstIntersecting ==
    out.op = "togglePresenting"
        => /\ out.anchor = FirstIntersecting(out.areas, out.viewportEnd)
           /\ viewState.cellAnchor = out.anchor
           /\ out.anchor = None <=> NoneIntersects(out.areas, out.viewportEnd)

\* C12: the `file` query parameter changes only as part of a successful
\* rename, so whenever no rename awaits its response the parameter mirrors
\* Filename (absent when Filename is None), whatever the order of the
\* responses was.
C12_UrlMirrorsFilename ==
    Len(Renames(pending)) = 0 => urlFile = filename

\* C13: while a rename awaits its response, neither the autosave nor a manual
\* save issues a sendSave carrying the filename the rename is replacing.
C13_NoSaveDuringRename ==
    (out.op \in {"autosave", "saveOrNameNotebook"} /\ out.sent = "sendSave")
        => \A i \in 1..(Len(pending) - 1) :
              IsRename(pending[i]) => pending[i].name = pending[Len(pending)].name

\* C15 as stated: LastSavedNotebook changes only in the continuation of a
\* confirmed save; every other action, the cells delivered by the backend
\* connection included, leaves it unchanged.
C15_OnlyConfirmedSave ==
    [][lastSaved' # lastSaved => out'.op = "saveOk"]_vars

\* C15, amended: LastSavedNotebook changes only in the continuation of a
\* confirmed save or when the backend connection delivers the cells, which
\* makes the delivered notebook the baseline; edits, renames, refused or
\* rejected saves and connection changes leave it unchanged.
C15_SaveOrLoad ==
    [][/\ lastSaved' # lastSaved => out'.op \in {"saveOk", "setCells"}
       /\ out'.op = "setCells" => lastSaved' = Some(Snapshot(cells', layout'))
       /\ out'.op \in {"edit", "conn", "rename", "renameOk", "renameRejected",
                       "saveRejected", "autosave", "saveOrNameNotebook",
                       "dialogInput", "dialogCancel", "beforeunload"}
            => lastSaved' = lastSaved]_vars

\* the backend delivered cells while a save of another content was in
\* flight: the baseline is the delivered notebook, no save was confirmed
C15_Witness ==
    /\ out.op = "setCells"
    /\ Len(cells) > 0
    /\ Len(Saves(pending)) > 0
    /\ lastSaved = Some(Snapshot(cells, layout))
    /\ Saves(pending)[1].snap # lastSaved[1]

\* C16: a rejected save has no effect: LastSavedNotebook and the cells are
\* unchanged, no confirmation is shown, nothing is reformatted, no alert is
\* shown, and no request is issued in its place.
C16_RejectedSaveNoEffect ==
    [][out'.op = "saveRejected"
        => /\ lastSaved' = lastSaved
           /\ cells' = cells /\ layout' = layout /\ filename' = filename
           /\ needsSave' = needsSave
           /\ ~out'.toast
           /\ ~out'.formatted
           /\ out'.alert = NoAlert
           /\ out'.sent = NoCall
           /\ Len(pending') = Len(pending) - 1
           /\ ~SaveIssued]_vars

\* the only save in flight was rejected and the notebook is still dirty
C16_Witness ==
    /\ out.op = "saveRejected"
    /\ pending = <<>>
    /\ needsSave
    /\ out.alert = NoAlert

C20_CleanAfterUserSave ==
    [][(/\ out'.op = "saveOk"
        /\ out'.toast
        /\ lastSaved' = Some(Snapshot(cells, layout)))
            => ~needsSave']_vars

\* C14: overlapping saves are neither deduplicated nor cancelled: a save
\* entry point that passes its guards adds its request behind the ones in
\* flight, and every successful response sets LastSavedNotebook to the
\* snapshot of its own request and leaves the other requests in flight, also
\* when the response belongs to a request that a later one has overtaken.
C14_LastResponseWins ==
    [][/\ out'.op = "saveOk"
            => \E i \in 1..Len(pending) :
                  /\ IsSave(pending[i])
                  /\ lastSaved' = Some(pending[i].snap)
                  /\ out'.overtaken = pending[i].overtaken
                  /\ pending' = RemoveAt(overtake(pending, i), i)
       /\ (out'.op \in {"autosave", "saveOrNameNotebook"} /\ out'.sent = "sendSave")
            => /\ Len(pending') = Len(pending) + 1
               /\ SubSeq(pending', 1, Len(pending)) = pending
               /\ IsSave(pending'[Len(pending')])
               /\ pending'[Len(pending')].snap = Snapshot(cells, layout)]_vars

\* two saves were in flight and the older one was answered last: the
\* baseline is its snapshot, not what the backend persisted last
C14_Witness ==
    /\ out.op = "saveOk"
    /\ out.overtaken
    /\ pending = <<>>
    /\ lastSaved # persisted
    /\ persisted # None

\* C19: whenever the notebook is reported clean with at least one cell, the
\* content the backend persisted last is the current content of the
\* notebook.
C19_CleanMeansPersisted ==
    (Len(cells) > 0 /\ ~needsSave) => persisted = Some(Snapshot(cells, layout))

====
